---- MODULE Spec2Model ----
(***************************************************************************)
(* The conversation state machine of the AI Concierge Agent (app.py):      *)
(* chat_handler, the question catalog, the finalizers, the gemini wrapper  *)
(* and the JSON stores behind the metrics and memory mirrors.              *)
(*                                                                         *)
(* Text is a sequence of one-character strings, so that lower(), strip()   *)
(* and the substring test are computed and not assumed.                    *)
(***************************************************************************)
EXTENDS Integers, Sequences, FiniteSets, TLC

VARIABLES
    state,          \* the session's state dict (gr.State), keys as in the code
    history,        \* the messages the last call appended and returned
    metrics,        \* in-process mirror of the metrics store
    memory_bank,    \* in-process mirror of the memory store
    metrics_file,   \* content of METRICS_PATH
    memory_file,    \* content of MEMORY_PATH
    calls,          \* finalizer / generator calls made by the last call
    outcome,        \* how the last call ended: "none", "returned", "raised"
    n_collected,    \* answers recorded since the last flow selection
    tests_box,      \* the persistence results of the last run_self_tests
    sessions,       \* the state dicts of two browser sessions
    lists,          \* the question lists the state dicts of `sessions` refer to
    threads,        \* two calls of chat_handler running on `state` at once
    writers         \* two calls of save_json(METRICS_PATH, metrics) running at once

vars ==
    <<state, history, metrics, memory_bank, metrics_file, memory_file,
      calls, outcome, n_collected, tests_box, sessions, lists, threads,
      writers>>

\* what a call of chat_handler on `state` and the Clear Chat button leave alone
beside_the_session ==
    <<tests_box, sessions, lists, threads, writers>>

\* Turns explored per run (total_messages is an unbounded counter).
MaxTurns == 14

\* Turns explored per run when the store can fail.
MaxStoreTurns == 11

-----------------------------------------------------------------------------
(* Text *)

UpperCase ==
    <<"A", "B", "C", "D", "E", "F", "G", "H", "I", "J", "K", "L", "M",
      "N", "O", "P", "Q", "R", "S", "T", "U", "V", "W", "X", "Y", "Z">>

LowerCase ==
    <<"a", "b", "c", "d", "e", "f", "g", "h", "i", "j", "k", "l", "m",
      "n", "o", "p", "q", "r", "s", "t", "u", "v", "w", "x", "y", "z">>

Whitespace ==
    {" "}

lower_char(c) ==
    IF \E i \in DOMAIN UpperCase : UpperCase[i] = c
    THEN LowerCase[CHOOSE i \in DOMAIN UpperCase : UpperCase[i] = c]
    ELSE c

\* str.lower()
lower(s) ==
    [i \in 1..Len(s) |-> lower_char(s[i])]

\* str.strip(): drops the leading and the trailing whitespace
strip(s) ==
    LET keep == {i \in 1..Len(s) : s[i] \notin Whitespace}
    IN  IF keep = {} THEN <<>>
        ELSE LET first == CHOOSE i \in keep : \A j \in keep : i <= j
                 last  == CHOOSE i \in keep : \A j \in keep : j <= i
             IN  SubSeq(s, first, last)

\* the `sub in s` test on strings
contains(sub, s) ==
    \E i \in 0..(Len(s) - Len(sub)) : SubSeq(s, i + 1, i + Len(sub)) = sub

k_english ==
    <<"e", "n", "g", "l", "i", "s", "h">>
k_hindi ==
    <<"h", "i", "n", "d", "i">>
k_marathi ==
    <<"m", "a", "r", "a", "t", "h", "i">>
k_telugu ==
    <<"t", "e", "l", "u", "g", "u">>
k_diet ==
    <<"d", "i", "e", "t">>
k_shopping ==
    <<"s", "h", "o", "p", "p", "i", "n", "g">>
k_travel ==
    <<"t", "r", "a", "v", "e", "l">>
k_yes ==
    <<"y", "e", "s">>
k_y ==
    <<"y">>
k_allergies ==
    <<"a", "l", "l", "e", "r", "g", "i", "e", "s">>
k_i_have_allergies ==
    <<"i", " ", "h", "a", "v", "e", " ", "a", "l", "l", "e", "r", "g", "i", "e", "s">>
k_im_allergic ==
    <<"i", "'", "m", " ", "a", "l", "l", "e", "r", "g", "i", "c">>
k_allergy ==
    <<"a", "l", "l", "e", "r", "g", "y">>
k_cloth ==
    <<"c", "l", "o", "t", "h">>
k_grocery ==
    <<"g", "r", "o", "c", "e", "r", "y">>

\* User messages tried by the model (besides the literals above).
m_English_padded ==
    <<" ", "E", "n", "g", "l", "i", "s", "h", " ">>
m_HINDI ==
    <<"H", "I", "N", "D", "I">>
m_Telugu ==
    <<"T", "e", "l", "u", "g", "u">>
m_french ==
    <<"f", "r", "e", "n", "c", "h">>
m_Diet_padded ==
    <<" ", "D", "i", "e", "t">>
m_SHOPPING_padded ==
    <<"S", "H", "O", "P", "P", "I", "N", "G", " ">>
m_diet_plan ==
    <<"d", "i", "e", "t", " ", "p", "l", "a", "n">>
m_empty ==
    <<>>
m_Y_padded ==
    <<" ", "Y", " ">>
m_Allergies ==
    <<"A", "l", "l", "e", "r", "g", "i", "e", "s">>
m_I_have_allergies ==
    <<"I", " ", "h", "a", "v", "e", " ", "a", "l", "l", "e", "r", "g", "i", "e", "s">>
m_no ==
    <<"n", "o">>
m_yes_please ==
    <<"y", "e", "s", " ", "p", "l", "e", "a", "s", "e">>
m_Clothes ==
    <<"C", "l", "o", "t", "h", "e", "s">>
m_Groceries ==
    <<"G", "r", "o", "c", "e", "r", "i", "e", "s">>
m_Clothes_and_grocery ==
    <<"C", "l", "o", "t", "h", "e", "s", " ", "a", "n", "d", " ", "g", "r", "o", "c", "e", "r", "y">>
m_GROCERY_padded ==
    <<" ", "G", "R", "O", "C", "E", "R", "Y", " ">>
m_Electronics ==
    <<"E", "l", "e", "c", "t", "r", "o", "n", "i", "c", "s">>
m_plain ==
    <<"4", "2">>

-----------------------------------------------------------------------------
(* Python values *)

\* Python's None (no text is a sequence holding a multi-character string)
None ==
    <<"<None>">>

\* {} : the empty dict
EmptyMap ==
    [k \in {} |-> 0]

\* d[k] = v
Put(d, k, v) ==
    (k :> v) @@ d

\* d.get(k)
Get(d, k) ==
    IF k \in DOMAIN d THEN d[k] ELSE None

\* datetime.utcnow().isoformat(): one opaque time stamp
utcnow ==
    <<"utcnow">>

\* list[i:i] = items (and list.insert(i, x) with items = <<x>>); i is the
\* 0-based Python index, clamped to the end of the list as Python does
slice_insert(list, i, items) ==
    LET at == IF i > Len(list) THEN Len(list) ELSE i
    IN  SubSeq(list, 1, at) \o items \o SubSeq(list, at + 1, Len(list))

-----------------------------------------------------------------------------
(* Language table and question catalog *)

LANG_CHOICES ==
    [k \in {k_english, k_hindi, k_marathi, k_telugu} |->
        CASE k = k_english -> "English"
          [] k = k_hindi   -> "Hindi"
          [] k = k_marathi -> "Marathi"
          [] k = k_telugu  -> "Telugu"]

FLOW_NAMES ==
    {k_diet, k_shopping, k_travel}

\* the name a flow is counted under in flows_completed
FlowKey(flow) ==
    IF flow = k_diet THEN "diet"
    ELSE IF flow = k_shopping THEN "shopping"
    ELSE "travel"

DietQuestions ==
    << <<"age", "Your age?">>,
       <<"gender", "Male / Female / Other?">>,
       <<"height_cm", "Height in cm?">>,
       <<"weight_kg", "Weight in kg?">>,
       <<"goal", "Goal: Lose / Maintain / Gain?">>,
       <<"activity", "Activity level (sedentary / light / moderate / active)?">>,
       <<"diet_type", "What type of diet do you follow? (Vegetarian / Eggetarian / Non-Vegetarian / Vegan)">>,
       <<"diet_pref", "Any dietary preferences or allergies? (If none, type 'no')">> >>

ShoppingQuestions ==
    << <<"currency", "Currency? (INR / USD / EUR / GBP / AED / CAD)">>,
       <<"budget", "Total shopping budget?">>,
       <<"category", "Type of shopping? (Clothes, Groceries, Electronics, Home, Kids, Gifts)">>,
       <<"purpose", "Purpose? (Daily / Festival / Travel / Wedding / Gift)">>,
       <<"members", "How many people are you shopping for?">>,
       <<"preferences", "Any preferences? (brand/size/style/etc.)">>,
       <<"have", "Do you already have some items? If yes, list them or type 'no'.">> >>

TravelQuestions ==
    << <<"currency", "Currency for budget (INR / USD / EUR / GBP / AED / CAD)?">>,
       <<"budget", "Total travel budget?">>,
       <<"origin", "Where are you traveling from?">>,
       <<"members", "How many travelers?">>,
       <<"country", "Destination country (or 'not sure')">>,
       <<"days", "How many days?">>,
       <<"pref", "Trip type: beach / adventure / city / nature / budget / luxury?">> >>

\* variant of base_questions_for_flow: travel gets the shopping list
base_questions_travel_as_shopping(flow) ==
    IF flow = k_diet THEN DietQuestions
    ELSE IF flow = k_shopping THEN ShoppingQuestions
    ELSE IF flow = k_travel THEN ShoppingQuestions
    ELSE <<>>

base_questions_for_flow(flow) ==
    IF flow = k_diet THEN DietQuestions
    ELSE IF flow = k_shopping THEN ShoppingQuestions
    ELSE IF flow = k_travel THEN TravelQuestions
    ELSE <<>>

\* the phrases that trigger the allergy follow-up
ALLERGY_PHRASES ==
    {k_yes, k_y, k_allergies, k_i_have_allergies, k_im_allergic, k_allergy}

\* variant of allergy_question: the follow-up slot reuses the key of the slot
\* that triggers it
allergy_question_colliding ==
    <<"diet_pref", "Please specify your allergies.">>

allergy_question ==
    <<"allergy_list", "Please specify your allergies.">>

extra_qs ==
    << <<"for_whom", "Who is this clothing for? (Men / Women / Kids / Baby)">>,
       <<"occasion", "Occasion? (Casual / Office / Party / Wedding / Travel)">>,
       <<"sizes", "Sizes or measurements?">> >>

frequency_qs ==
    << <<"frequency", "Grocery frequency (Weekly / Monthly)?">> >>

-----------------------------------------------------------------------------
(* Assistant texts; a text built by an f-string is the sequence of its parts *)

LanguageSetText(lang) ==
    <<"Language set to **", lang,
      "**. How can I help you today? Diet Plan / Shopping Help / Travel Planning. Type: **diet**, **shopping**, or **travel**">>

LanguageReprompt ==
    <<"Please select a language: English / Hindi / Marathi / Telugu">>

FlowReprompt ==
    <<"Please type: diet / shopping / travel">>

AllergyFollowUp ==
    <<"Please specify your allergies (e.g., dairy, peanuts, gluten, soy, egg).">>

PreparingText ==
    <<"Preparing your results... please wait.">>

WhatElseText(lang) ==
    <<"What else can I help with in ", lang, "? (diet / shopping / travel)">>

FallbackText ==
    <<"I didn't understand. Please type diet / shopping / travel.">>

\* what the generator returns: r.text, or str(r) when r has no text
GeneratedText(how) ==
    IF how = "text" THEN <<"r.text">> ELSE <<"str(r)">>

GeminiErrorText ==
    <<"Gemini Error: ", "e">>

assistant(content) ==
    [role |-> "assistant", content |-> content]

user(message) ==
    [role |-> "user", content |-> message]

-----------------------------------------------------------------------------
(* The stores: load_json / save_json *)

\* The text of a file is a sequence of tokens: <<"{", 0>>, <<"}", 0>>,
\* <<"key", name>>, one <<"digit", d>> per decimal digit of a number,
\* <<"string", s>> and <<"null", 0>>.  With indent=2 every member is on a line
\* of its own, so no separator token is kept.

\* the order the members of a mapping are written in (the order of the
\* metrics file as created; for the memory store the order of insertion of a
\* session that completes diet, shopping and travel in this order)
KeyOrder ==
    <<"sessions_created", "flows_completed", "diet", "shopping", "travel",
      "total_messages", "gemini_calls", "errors", "last_reset",
      "last_diet_pref", "last_diet_type", "last_diet_update",
      "last_shopping_budget", "budget", "currency", "last_shopping_update",
      "last_travel_origin", "last_travel_update", "__test">>

\* the keys whose values are int
IntKeys ==
    {"sessions_created", "diet", "shopping", "travel", "total_messages",
     "gemini_calls", "errors"}

\* the keys whose values are dict
DictKeys ==
    {"flows_completed", "last_shopping_budget"}

RECURSIVE Digits(_)
\* variant of Digits: only the last digit is written
Digits_units(n) ==
    << <<"digit", n % 10>> >>

\* the decimal digits of a non-negative int
Digits(n) ==
    IF n < 10 THEN << <<"digit", n>> >>
    ELSE Digits(n \div 10) \o << <<"digit", n % 10>> >>

RECURSIVE json_value(_, _)
RECURSIVE json_members(_, _)

\* the members of the mapping `data` from position i of KeyOrder on
json_members(data, i) ==
    IF i > Len(KeyOrder) THEN <<>>
    ELSE LET key == KeyOrder[i]
         IN  (IF key \in DOMAIN data
              THEN << <<"key", key>> >> \o json_value(key, data[key])
              ELSE <<>>) \o json_members(data, i + 1)

\* the text of the value v held under `key`: int, dict, None or str
json_value(key, v) ==
    IF key \in IntKeys THEN Digits(v)
    ELSE IF key \in DictKeys
    THEN << <<"{", 0>> >> \o json_members(v, 1) \o << <<"}", 0>> >>
    ELSE IF v = None THEN << <<"null", 0>> >>
    ELSE << <<"string", v>> >>

\* json.dump(data, f, indent=2) of a mapping
json_dump(data) ==
    << <<"{", 0>> >> \o json_members(data, 1) \o << <<"}", 0>> >>

\* what parsing yields when the text is not JSON
ParseError ==
    [ok |-> FALSE, value |-> EmptyMap, next |-> 0]

RECURSIVE parse_digits(_, _, _)
\* the number that starts at token i
parse_digits(text, i, n) ==
    IF i <= Len(text) /\ text[i][1] = "digit"
    THEN parse_digits(text, i + 1, 10 * n + text[i][2])
    ELSE [ok |-> TRUE, value |-> n, next |-> i]

RECURSIVE parse_value(_, _)
RECURSIVE parse_members(_, _, _)

\* the members of an object from token i on, up to its closing brace
parse_members(text, i, members) ==
    IF i > Len(text) THEN ParseError
    ELSE IF text[i][1] = "}"
    THEN [ok |-> TRUE, value |-> members, next |-> i + 1]
    ELSE IF text[i][1] = "key"
    THEN LET r == parse_value(text, i + 1)
         IN  IF r.ok
             THEN parse_members(text, r.next, Put(members, text[i][2], r.value))
             ELSE ParseError
    ELSE ParseError

\* the value that starts at token i
parse_value(text, i) ==
    IF i > Len(text) THEN ParseError
    ELSE IF text[i][1] = "digit" THEN parse_digits(text, i, 0)
    ELSE IF text[i][1] = "string"
    THEN [ok |-> TRUE, value |-> text[i][2], next |-> i + 1]
    ELSE IF text[i][1] = "null"
    THEN [ok |-> TRUE, value |-> None, next |-> i + 1]
    ELSE IF text[i][1] = "{" THEN parse_members(text, i + 1, EmptyMap)
    ELSE ParseError

\* json.load(f): one value and nothing after it, or an exception
json_load(text) ==
    LET r == parse_value(text, 1)
    IN  IF r.ok /\ r.next = Len(text) + 1 THEN r ELSE ParseError

\* a file holding the JSON of `data`
Stored(data) ==
    json_dump(data)

\* a file that is missing or was truncated: no text
Unreadable ==
    <<>>

\* the metrics file as first created
DefaultMetrics ==
    [sessions_created |-> 0,
     flows_completed  |-> [diet |-> 0, shopping |-> 0, travel |-> 0],
     total_messages   |-> 0,
     gemini_calls     |-> 0,
     errors           |-> 0,
     last_reset       |-> None]

\* load_json(path, default): the parsed text, the default when parsing raises
load_json(file, default) ==
    LET r == json_load(file)
    IN  IF r.ok THEN r.value ELSE default

\* No save_json call fails.
NoFault ==
    [at |-> "none", truncated |-> FALSE]

\* The save_json call sites, by source line.
SaveSites ==
    {"L309", "L352", "L100", "L113", "L226", "L229", "L255", "L258", "L286", "L289"}

\* The save_json call at one site raises (open() or the write fails); a failed
\* write leaves the file truncated.
Faults ==
    {NoFault} \cup [at : SaveSites, truncated : BOOLEAN]

(* One run of chat_handler is a record c threaded through its statements:
   the program state, plus outcome ("running" until the call returns or
   raises), the value `result` of the finalizer and the fault of this run.
   A statement reached after the call has raised does nothing.  A statement
   names the record it receives once, Only({ ... : c \in {call} }), so that
   the record is one value however often the statement reads it. *)

\* the element of a one-element set
Only(S) ==
    CHOOSE x \in S : TRUE

raise(c) ==
    [c EXCEPT !.outcome = "raised"]

return(c) ==
    [c EXCEPT !.outcome = "returned"]

\* save_json(path, data) called at `site`; file names the variable of path
save_json(call, file, data, site) ==
    Only({
        IF c.outcome # "running" THEN c
        ELSE IF c.fault.at = site
        THEN raise([c EXCEPT ![file] = IF c.fault.truncated THEN Unreadable ELSE @])
        ELSE [c EXCEPT ![file] = Stored(data)]
        : c \in {call} })

save_metrics(call, site) ==
    Only({
        save_json(c, "metrics_file", c.metrics, site)
        : c \in {call} })

save_memory(call, site) ==
    Only({
        save_json(c, "memory_file", c.memory_bank, site)
        : c \in {call} })

\* metrics[key] += 1 (KeyError when the mirror has no such key)
bump(call, key) ==
    Only({
        IF c.outcome # "running" THEN c
        ELSE IF key \notin DOMAIN c.metrics THEN raise(c)
        ELSE [c EXCEPT !.metrics = Put(@, key, @[key] + 1)]
        : c \in {call} })

\* variant of bump_flow: a flow whose generator call failed is not counted
bump_flow_unless_failed(c, flow) ==
    IF c.outcome # "running" THEN c
    ELSE IF "flows_completed" \notin DOMAIN c.metrics THEN raise(c)
    ELSE IF c.result = GeminiErrorText THEN c
    ELSE [c EXCEPT !.metrics =
            Put(@, "flows_completed",
                Put(@["flows_completed"], flow, @["flows_completed"][flow] + 1))]

\* metrics["flows_completed"][flow] += 1
bump_flow(call, flow) ==
    Only({
        IF c.outcome # "running" THEN c
        ELSE IF "flows_completed" \notin DOMAIN c.metrics THEN raise(c)
        ELSE [c EXCEPT !.metrics =
                Put(@, "flows_completed",
                    Put(@["flows_completed"], flow, @["flows_completed"][flow] + 1))]
        : c \in {call} })

remember(call, key, value) ==
    Only({
        IF c.outcome # "running" THEN c
        ELSE [c EXCEPT !.memory_bank = Put(@, key, value)]
        : c \in {call} })

called(call, fn, args) ==
    Only({
        IF c.outcome # "running" THEN c
        ELSE [c EXCEPT !.calls = Append(@, [fn |-> fn, args |-> args])]
        : c \in {call} })

say(call, content) ==
    Only({
        IF c.outcome # "running" THEN c
        ELSE [c EXCEPT !.history = Append(@, assistant(content))]
        : c \in {call} })

-----------------------------------------------------------------------------
(* gemini and the finalizers *)

\* how the generator call ends: r.text, str(r), or an exception
GenOutcomes ==
    {"text", "repr", "raise"}

\* variant of gemini_failed: the error is not counted
gemini_failed_uncounted(c) ==
    [c EXCEPT !.result = GeminiErrorText]

\* variant of gemini_failed: the exception leaves gemini
gemini_failed_raising(c) ==
    raise(c)

\* the except branch of gemini
gemini_failed(call) ==
    Only({
        LET c1 == bump(c, "errors")
            c2 == save_metrics(c1, "L113")
        IN  IF c2.outcome # "running" THEN c2
            ELSE [c2 EXCEPT !.result = GeminiErrorText]
        : c \in {call} })

gemini(call, prompt, how) ==
    Only({
        LET c1 == bump(called(c, "gemini", prompt), "gemini_calls")
            c2 == save_metrics(c1, "L100")
            c3 == called(c2, "generate_content", how)
        IN  IF c3.outcome # "running" THEN c3
            ELSE IF how = "raise" THEN gemini_failed(c3)
            ELSE [c3 EXCEPT !.result = GeneratedText(how)]
        : c \in {call} })

finalize_diet(call, answers, lang, how) ==
    Only({
        LET c0 == called(c, "finalize_diet", [answers |-> answers, lang |-> lang])
            c1 == gemini(c0, <<"dietitian", lang, answers, Get(answers, "diet_type")>>, how)
            c2 == remember(c1, "last_diet_pref", Get(answers, "diet_pref"))
            c3 == remember(c2, "last_diet_type", Get(answers, "diet_type"))
            c4 == remember(c3, "last_diet_update", utcnow)
            c5 == save_memory(c4, "L226")
            c6 == bump_flow(c5, "diet")
        IN  save_metrics(c6, "L229")
        : c \in {call} })

finalize_shopping(call, answers, lang, how) ==
    Only({
        LET c0 == called(c, "finalize_shopping", [answers |-> answers, lang |-> lang])
            c1 == gemini(c0, <<"shopping assistant", lang, answers, Get(answers, "currency")>>, how)
            c2 == remember(c1, "last_shopping_budget",
                           [budget |-> Get(answers, "budget"),
                            currency |-> Get(answers, "currency")])
            c3 == remember(c2, "last_shopping_update", utcnow)
            c4 == save_memory(c3, "L255")
            c5 == bump_flow(c4, "shopping")
        IN  save_metrics(c5, "L258")
        : c \in {call} })

finalize_travel(call, answers, lang, how) ==
    Only({
        LET c0 == called(c, "finalize_travel", [answers |-> answers, lang |-> lang])
            c1 == gemini(c0, <<"travel agent", lang, answers, Get(answers, "days"),
                               Get(answers, "currency")>>, how)
            c2 == remember(c1, "last_travel_origin", Get(answers, "origin"))
            c3 == remember(c2, "last_travel_update", utcnow)
            c4 == save_memory(c3, "L286")
            c5 == bump_flow(c4, "travel")
        IN  save_metrics(c5, "L289")
        : c \in {call} })

-----------------------------------------------------------------------------
(* chat_handler *)

\* variant of normalized: the strip() is left out
normalized_unstripped(message) ==
    lower(message)

\* message.lower().strip()
normalized(message) ==
    strip(lower(message))

\* variant of reset_state: the language falls back to the default
reset_state_default_lang(lang) ==
    [stage |-> "choose_flow", lang |-> "English"]

\* variant of reset_state: a completed flow leaves a stage of its own
reset_state_done(lang) ==
    [stage |-> "done", lang |-> lang]

\* variant of reset_state: a completed flow starts the conversation over
reset_state_forgets_language(lang) ==
    [stage |-> "choose_language"]

\* the state a completed flow leaves: {"stage": "choose_flow", "lang": lang}
reset_state(lang) ==
    [stage |-> "choose_flow", lang |-> lang]

\* variant of allergy_follow_up: the prompt is sent but no slot is queued
allergy_follow_up_not_queued(questions, idx) ==
    questions

\* state["questions"].insert(idx + 1, ("allergy_list", ...))
allergy_follow_up(questions, idx) ==
    slice_insert(questions, idx + 1, <<allergy_question>>)

\* variant of shopping_follow_ups: the grocery slot overwrites the next slot
\* (questions[idx+1:idx+2] = ...) instead of being inserted before it
shopping_follow_ups_overwriting(questions, idx, cat) ==
    LET q1 == IF contains(k_cloth, cat)
              THEN slice_insert(questions, idx + 1, extra_qs)
              ELSE questions
    IN  IF contains(k_grocery, cat)
        THEN SubSeq(q1, 1, idx + 1) \o frequency_qs \o SubSeq(q1, idx + 3, Len(q1))
        ELSE q1

\* variant of shopping_follow_ups: the slices are taken at idx, one too early
shopping_follow_ups_off_by_one(questions, idx, cat) ==
    LET q1 == IF contains(k_cloth, cat)
              THEN slice_insert(questions, idx, extra_qs)
              ELSE questions
    IN  IF contains(k_grocery, cat)
        THEN slice_insert(q1, idx, frequency_qs)
        ELSE q1

\* the two slice assignments of the shopping branch, in the code's order
shopping_follow_ups(questions, idx, cat) ==
    LET q1 == IF contains(k_cloth, cat)
              THEN slice_insert(questions, idx + 1, extra_qs)
              ELSE questions
    IN  IF contains(k_grocery, cat)
        THEN slice_insert(q1, idx + 1, frequency_qs)
        ELSE q1

\* state["q_index"] < len(state["questions"])
more_questions(st) ==
    st.q_index < Len(st.questions)

\* variant of finalize: every flow is sent to the travel finalizer
finalize_always_travel(c, flow, answers, lang, how) ==
    finalize_travel(c, answers, lang, how)

\* the if / elif / else over flow that picks the finalizer
finalize(c, flow, answers, lang, how) ==
    IF flow = k_diet THEN finalize_diet(c, answers, lang, how)
    ELSE IF flow = k_shopping THEN finalize_shopping(c, answers, lang, how)
    ELSE finalize_travel(c, answers, lang, how)

\* stage choose_language
choose_language(call, message) ==
    Only({
        LET msg == normalized(message)
        IN  IF msg \in DOMAIN LANG_CHOICES
            THEN LET st == Put(Put(c.state, "lang", LANG_CHOICES[msg]),
                               "stage", "choose_flow")
                 IN  return(say([c EXCEPT !.state = st], LanguageSetText(st.lang)))
            ELSE return(say(c, LanguageReprompt))
        : c \in {call} })

\* the first prompt after a flow is selected
first_question(call) ==
    Only({
        return(say(c, <<c.state.questions[1][2]>>))
        : c \in {call} })

\* stage choose_flow
choose_flow(call, message) ==
    Only({
        LET msg == normalized(message)
        IN  IF msg \in FLOW_NAMES
            THEN LET st == Put(Put(Put(Put(Put(c.state,
                               "flow", msg),
                               "questions", base_questions_for_flow(msg)),
                               "answers", EmptyMap),
                               "q_index", 0),
                               "stage", "collecting")
                     c1 == bump([c EXCEPT !.state = st, !.n_collected = 0],
                                "sessions_created")
                     c2 == save_metrics(c1, "L352")
                 IN  IF c2.outcome # "running" THEN c2 ELSE first_question(c2)
            ELSE return(say(c, FlowReprompt))
        : c \in {call} })

\* all questions answered: generate the result, reset but keep the language
dispatch(call, how) ==
    Only({
        LET flow    == c.state.flow
            lang    == c.state.lang
            answers == c.state.answers
            c1 == finalize(say(c, PreparingText), flow, answers, lang, how)
        IN  IF c1.outcome # "running" THEN c1
            ELSE return(say(say([c1 EXCEPT !.state = reset_state(lang)],
                                c1.result),
                            WhatElseText(lang)))
        : c \in {call} })

\* "Ask the next question if available", else dispatch
next_or_dispatch(call, how) ==
    Only({
        IF more_questions(c.state)
        THEN return(say(c, <<c.state.questions[c.state.q_index + 1][2]>>))
        ELSE dispatch(c, how)
        : c \in {call} })

\* variant of record_answer: the answer is stored but the cursor stays
record_answer_cursor_kept(st, message) ==
    LET idx == st.q_index
        key == st.questions[idx + 1][1]
    IN  Put(st, "answers", Put(st.answers, key, strip(message)))

\* variant of record_answer: the answer replaces the answers collected so far
record_answer_alone(st, message) ==
    LET idx == st.q_index
        key == st.questions[idx + 1][1]
    IN  Put(Put(st, "answers", Put(EmptyMap, key, strip(message))),
            "q_index", idx + 1)

\* lines 366-369: the stripped message becomes the answer of the slot under
\* the cursor, and the cursor moves one slot on
record_answer(st, message) ==
    LET idx == st.q_index
        key == st.questions[idx + 1][1]
    IN  Put(Put(st, "answers", Put(st.answers, key, strip(message))),
            "q_index", idx + 1)

\* variant of after_answer: the allergy rule is keyed by the flow and the
\* answer only, not by the slot
after_answer_any_slot(call, idx, key, message, how) ==
    Only({
        LET st1 == c1.state
        IN  IF /\ st1.flow = k_diet
               /\ normalized(message) \in ALLERGY_PHRASES
            THEN return([say(c1, AllergyFollowUp) EXCEPT !.state =
                            Put(st1, "questions",
                                allergy_follow_up(st1.questions, idx))])
            ELSE IF st1.flow = k_shopping /\ key = "category"
            THEN next_or_dispatch(
                    [c1 EXCEPT !.state =
                        Put(st1, "questions",
                            shopping_follow_ups(st1.questions, idx, lower(message)))],
                    how)
            ELSE next_or_dispatch(c1, how)
        : c1 \in {call} })

\* lines 371-413: the follow-up rules of the slot just answered, then the next
\* question or the dispatch
after_answer(call, idx, key, message, how) ==
    Only({
        LET st1 == c1.state
        IN  IF /\ st1.flow = k_diet
               /\ key = "diet_pref"
               /\ normalized(message) \in ALLERGY_PHRASES
            THEN return([say(c1, AllergyFollowUp) EXCEPT !.state =
                            Put(st1, "questions",
                                allergy_follow_up(st1.questions, idx))])
            ELSE IF st1.flow = k_shopping /\ key = "category"
            THEN next_or_dispatch(
                    [c1 EXCEPT !.state =
                        Put(st1, "questions",
                            shopping_follow_ups(st1.questions, idx, lower(message)))],
                    how)
            ELSE next_or_dispatch(c1, how)
        : c1 \in {call} })

\* stage collecting; an index past the queue raises IndexError
collecting(call, message, how) ==
    Only({
        LET st  == c.state
            idx == st.q_index
        IN  IF idx >= Len(st.questions) THEN raise(c)
            ELSE
            LET key == st.questions[idx + 1][1]
                c1  == [c EXCEPT !.state = record_answer(st, message),
                                 !.n_collected = @ + 1]
            IN  after_answer(c1, idx, key, message, how)
        : c \in {call} })

\* the body of chat_handler after the user message is stored
stages(call, message, how) ==
    Only({
        IF c.state.stage = "choose_language" THEN choose_language(c, message)
        ELSE IF c.state.stage = "choose_flow" THEN choose_flow(c, message)
        ELSE IF c.state.stage = "collecting" THEN collecting(c, message, how)
        ELSE return(say(c, FallbackText))
        : c \in {call} })

\* a call of chat_handler that has received the state dict st and has done
\* nothing yet
entered(st, fault) ==
    [state        |-> IF "stage" \in DOMAIN st
                      THEN st
                      ELSE [stage |-> "choose_language"],
     history      |-> <<>>,
     metrics      |-> metrics,
     memory_bank  |-> memory_bank,
     metrics_file |-> metrics_file,
     memory_file  |-> memory_file,
     calls        |-> <<>>,
     n_collected  |-> n_collected,
     outcome      |-> "running",
     result       |-> None,
     fault        |-> fault]

\* one call chat_handler(message, history, st) with the generator ending
\* `how` and the store behaving as `fault` says
call_chat_handler(st, message, how, fault) ==
    LET c1 == save_metrics(bump(entered(st, fault), "total_messages"), "L309")
    IN  IF c1.outcome # "running" THEN c1
        ELSE stages([c1 EXCEPT !.history = Append(@, user(message))],
                    message, how)

\* the call on the state of the session `state`
run_chat_handler(message, how, fault) ==
    call_chat_handler(state, message, how, fault)

-----------------------------------------------------------------------------
(* The messages the user sends *)

\* typed while a language or a flow is being chosen
MenuInputs ==
    {k_english, m_English_padded, m_HINDI, k_marathi, m_Telugu, m_french,
     k_diet, m_Diet_padded, m_SHOPPING_padded, k_travel, m_diet_plan}

\* typed as the answer to diet_pref
DietPrefInputs ==
    {k_yes, m_Y_padded, m_Allergies, m_I_have_allergies, k_im_allergic,
     k_allergy, m_no, m_yes_please, m_empty}

\* typed as the answer to category
CategoryInputs ==
    {m_Clothes, k_grocery, m_GROCERY_padded, m_Groceries,
     m_Clothes_and_grocery, m_Electronics}

\* the slots, besides the two that have follow-up rules, at which the model
\* also tries a text that would trigger a follow-up if the rules were not
\* keyed by flow and slot
ProbedSlots ==
    {"budget", "purpose", "diet_type", "allergy_list", "for_whom"}

\* typed as the answer to any other slot
OtherInputs(flow, key) ==
    IF key \notin ProbedSlots THEN {m_plain}
    ELSE IF flow = k_shopping THEN {m_plain, m_Clothes_and_grocery}
    ELSE {m_plain, k_yes}

Inputs ==
    IF state.stage # "collecting" \/ state.q_index >= Len(state.questions)
    THEN MenuInputs
    ELSE LET key == state.questions[state.q_index + 1][1]
         IN  IF key = "diet_pref" THEN DietPrefInputs
             ELSE IF key = "category" THEN CategoryInputs
             ELSE OtherInputs(state.flow, key)

\* the next message answers the last slot of the queue
AnswersLastSlot ==
    state.stage = "collecting" /\ state.q_index + 1 = Len(state.questions)

\* the generator is reached only by a call that answers the last queued
\* slot; in every other call its outcome is not drawn
Outcomes ==
    IF AnswersLastSlot THEN GenOutcomes ELSE {"text"}

-----------------------------------------------------------------------------
(* The state machine *)

\* the two browser sessions
Sessions ==
    {1, 2}

\* the two calls that run at once
Threads ==
    {1, 2}

\* a thread that runs no call
IdleThread ==
    [pc |-> "idle", message |-> <<>>, idx |-> 0, key |-> ""]

\* a writer that is not inside save_json
IdleWriter ==
    [pc |-> "idle", buffer |-> <<>>]

\* no self test was run, every session holds gr.State's value, and no call is
\* running
NothingElseRuns ==
    /\ tests_box = <<>>
    /\ sessions = [s \in Sessions |-> [stage |-> "choose_language"]]
    /\ lists = EmptyMap
    /\ threads = [t \in Threads |-> IdleThread]
    /\ writers = [w \in Threads |-> IdleWriter]

\* the process start: the files exist and hold their first content, the
\* mirrors are loaded from them, the session state is gr.State's value
Init ==
    /\ metrics_file = Stored(DefaultMetrics)
    /\ memory_file = Stored(EmptyMap)
    /\ metrics = load_json(metrics_file, EmptyMap)
    /\ memory_bank = load_json(memory_file, EmptyMap)
    /\ state = [stage |-> "choose_language"]
    /\ history = <<>>
    /\ calls = <<>>
    /\ outcome = "none"
    /\ n_collected = 0
    /\ NothingElseRuns

\* the total_messages counter is capped
TurnAllowed(max) ==
    "total_messages" \in DOMAIN metrics => metrics.total_messages < max

chat_handler(message, how, fault) ==
    /\ \E c \in {run_chat_handler(message, how, fault)} :
           /\ state' = c.state
           /\ history' = IF c.outcome = "returned" THEN c.history ELSE <<>>
           /\ metrics' = c.metrics
           /\ memory_bank' = c.memory_bank
           /\ metrics_file' = c.metrics_file
           /\ memory_file' = c.memory_file
           /\ calls' = c.calls
           /\ outcome' = c.outcome
           /\ n_collected' = c.n_collected
    /\ UNCHANGED beside_the_session

\* the Clear Chat button
ClearChat ==
    /\ state' = [stage |-> "choose_language"]
    /\ history' = <<>>
    /\ calls' = <<>>
    /\ outcome' = "none"
    /\ n_collected' = 0
    /\ UNCHANGED <<metrics, memory_bank, metrics_file, memory_file>>
    /\ UNCHANGED beside_the_session

\* a user turn with a working store
Turn ==
    /\ TurnAllowed(MaxTurns)
    /\ \E message \in Inputs, how \in Outcomes :
          chat_handler(message, how, NoFault)

Next ==
    \/ Turn
    \/ ClearChat

Spec ==
    Init /\ [][Next]_vars

-----------------------------------------------------------------------------
(* The same machine with a store that can fail *)

\* at process start either file may be unreadable, and then its mirror is
\* the default {} handed to load_json
InitStore ==
    /\ metrics_file \in {Stored(DefaultMetrics), Unreadable}
    /\ memory_file \in {Stored(EmptyMap), Unreadable}
    /\ metrics = load_json(metrics_file, EmptyMap)
    /\ memory_bank = load_json(memory_file, EmptyMap)
    /\ state = [stage |-> "choose_language"]
    /\ history = <<>>
    /\ calls = <<>>
    /\ outcome = "none"
    /\ n_collected = 0
    /\ NothingElseRuns

\* the save_json call sites of the finalizer of a flow
FinalizerSites(flow) ==
    IF flow = k_diet THEN {"L226", "L229"}
    ELSE IF flow = k_shopping THEN {"L255", "L258"}
    ELSE {"L286", "L289"}

\* the save_json call sites a call can reach from the current state when the
\* generator ends `how` (a fault at a site the call does not reach changes
\* nothing and is not drawn)
ReachableSites(how) ==
    IF state.stage = "choose_flow" THEN {"L309", "L352"}
    ELSE IF AnswersLastSlot
    THEN {"L309", "L100"} \cup FinalizerSites(state.flow)
            \cup (IF how = "raise" THEN {"L113"} ELSE {})
    ELSE {"L309"}

\* a user turn in which every save_json call succeeds
SoundTurn ==
    /\ TurnAllowed(MaxStoreTurns)
    /\ \E message \in Inputs, how \in Outcomes :
          chat_handler(message, how, NoFault)

\* a user turn in which one save_json call site raises if it is reached
FaultyTurn ==
    /\ TurnAllowed(MaxStoreTurns)
    /\ \E message \in Inputs, how \in Outcomes :
          \E fault \in {f \in Faults : f.at \in ReachableSites(how)} :
              chat_handler(message, how, fault)

NextStore ==
    \/ SoundTurn
    \/ FaultyTurn
    \/ ClearChat

SpecStore ==
    InitStore /\ [][NextStore]_vars

-----------------------------------------------------------------------------
(* The same machine with the Run Self Tests button *)

\* Turns explored per run next to the self tests.
MaxTestTurns == 10

\* run_self_tests (lines 451-488).  Its three intent checks read nothing of
\* the state and are left out of tests_box; the two persistence checks write
\* "__test" to each mirror, save it and load the file again.
run_self_tests ==
    LET memory_bank1 == Put(memory_bank, "__test", utcnow)
        memory_file1 == Stored(memory_bank1)
        ok  == "__test" \in DOMAIN load_json(memory_file1, EmptyMap)
        metrics1      == Put(metrics, "__test", utcnow)
        metrics_file1 == Stored(metrics1)
        ok2 == "__test" \in DOMAIN load_json(metrics_file1, EmptyMap)
    IN  /\ memory_bank' = memory_bank1
        /\ memory_file' = memory_file1
        /\ metrics' = metrics1
        /\ metrics_file' = metrics_file1
        /\ tests_box' = << <<"Memory persistence", ok>>,
                           <<"Metrics persistence", ok2>> >>
        /\ UNCHANGED <<state, history, calls, outcome, n_collected>>
        /\ UNCHANGED <<sessions, lists, threads, writers>>

\* a user turn with a working store
TestTurn ==
    /\ TurnAllowed(MaxTestTurns)
    /\ \E message \in Inputs, how \in Outcomes :
          chat_handler(message, how, NoFault)

NextSelfTests ==
    \/ TestTurn
    \/ ClearChat
    \/ run_self_tests

SpecSelfTests ==
    Init /\ [][NextSelfTests]_vars

-----------------------------------------------------------------------------
(* Two browser sessions.  A state dict of `sessions` holds under            *)
(* "questions" the name of a list object of `lists`, so that a list that    *)
(* two dicts refer to is one list.                                          *)

\* Turns explored per run of the two sessions (both sessions count).
MaxSessionTurns == 11

\* variant of list_returned: the catalog keeps one list per flow and returns it
list_returned_shared(s, flow) ==
    FlowKey(flow)

\* the list object base_questions_for_flow(flow) returns to a call of session
\* s: the list literal is evaluated in the call, so the object is new and
\* only this call refers to it
list_returned(s, flow) ==
    IF s = 1 THEN "list of session 1" ELSE "list of session 2"

\* the state dict of session s with its list in place of the list's name
session_state(s) ==
    IF "questions" \in DOMAIN sessions[s]
    THEN [sessions[s] EXCEPT !.questions = lists[@]]
    ELSE sessions[s]

\* the lists that are module-level objects (none in app.py)
ModuleLists ==
    {"diet", "shopping", "travel"}

\* the list objects still referred to once the state dicts are `dicts`
collected(objects, dicts) ==
    LET referred == {dicts[s].questions :
                        s \in {r \in Sessions : "questions" \in DOMAIN dicts[r]}}
        kept == DOMAIN objects \cap (referred \cup ModuleLists)
    IN  [id \in kept |-> objects[id]]

\* what the users of the two sessions type
SessionInputs(st) ==
    IF st.stage = "choose_language" THEN {k_english}
    ELSE IF st.stage = "choose_flow" THEN {k_diet, k_shopping, k_travel}
    ELSE IF st.questions[st.q_index + 1][1] = "category"
    THEN {m_Clothes_and_grocery, m_Electronics}
    ELSE IF st.questions[st.q_index + 1][1] = "diet_pref"
    THEN {m_Y_padded, m_no}
    ELSE {m_plain}

\* a call of chat_handler with the state dict of session s
session_chat_handler(s, message) ==
    \E c \in {call_chat_handler(session_state(s), message, "text", NoFault)} :
        LET selects == /\ sessions[s].stage = "choose_flow"
                       /\ c.state.stage = "collecting"
            id      == IF selects THEN list_returned(s, c.state.flow)
                       ELSE sessions[s].questions
            dict    == IF "questions" \in DOMAIN c.state
                       THEN [c.state EXCEPT !.questions = id]
                       ELSE c.state
            objects == IF "questions" \notin DOMAIN c.state THEN lists
                       ELSE IF selects /\ id \in DOMAIN lists THEN lists
                       ELSE Put(lists, id, c.state.questions)
        IN  /\ sessions' = [sessions EXCEPT ![s] = dict]
            /\ lists' = collected(objects, sessions')
            /\ metrics' = c.metrics
            /\ memory_bank' = c.memory_bank
            /\ metrics_file' = c.metrics_file
            /\ memory_file' = c.memory_file
            /\ UNCHANGED <<state, history, calls, outcome, n_collected>>
            /\ UNCHANGED <<tests_box, threads, writers>>

\* a user turn of session s
SessionTurn(s) ==
    /\ TurnAllowed(MaxSessionTurns)
    /\ \E message \in SessionInputs(session_state(s)) :
          session_chat_handler(s, message)

\* the Clear Chat button of session s
SessionClearChat(s) ==
    /\ sessions' = [sessions EXCEPT ![s] = [stage |-> "choose_language"]]
    /\ lists' = collected(lists, sessions')
    /\ UNCHANGED <<metrics, memory_bank, metrics_file, memory_file>>
    /\ UNCHANGED <<state, history, calls, outcome, n_collected>>
    /\ UNCHANGED <<tests_box, threads, writers>>

SessionTurns ==
    \E s \in Sessions : SessionTurn(s)

SessionClears ==
    \E s \in Sessions : SessionClearChat(s)

NextSessions ==
    \/ SessionTurns
    \/ SessionClears

SpecSessions ==
    Init /\ [][NextSessions]_vars

-----------------------------------------------------------------------------
(* Two calls of chat_handler, of different sessions, from line 308 to the  *)
(* end of save_json at line 309, statement by statement.  What the calls   *)
(* do after line 309 is not followed here.                                 *)

\* Messages counted in the metrics file by earlier runs of the program.
MaxEarlierMessages == 9

\* Calls followed per run.
MaxWrites == 3

\* the process starts on the metrics file an earlier run left: n messages,
\* none of which was a language
InitWrites ==
    /\ \E n \in 0..MaxEarlierMessages :
          metrics_file = Stored([DefaultMetrics EXCEPT !.total_messages = n])
    /\ memory_file = Stored(EmptyMap)
    /\ metrics = load_json(metrics_file, EmptyMap)
    /\ memory_bank = load_json(memory_file, EmptyMap)
    /\ state = [stage |-> "choose_language"]
    /\ history = <<>>
    /\ calls = <<>>
    /\ outcome = "none"
    /\ n_collected = 0
    /\ NothingElseRuns

\* what the file holds after `buffer` was written at position 0: open(path,
\* "w") truncated the file when it was opened, and the write itself removes
\* nothing behind its last token
written_over(file, buffer) ==
    buffer \o SubSeq(file, Len(buffer) + 1, Len(file))

\* line 308: metrics["total_messages"] += 1
writer_counts(w) ==
    /\ writers[w].pc = "idle"
    /\ metrics.total_messages < MaxEarlierMessages + MaxWrites
    /\ metrics' = Put(metrics, "total_messages", metrics.total_messages + 1)
    /\ writers' = [writers EXCEPT ![w] = [pc |-> "L82", buffer |-> <<>>]]
    /\ UNCHANGED metrics_file

\* line 82: open(path, "w") empties the file
writer_opens(w) ==
    /\ writers[w].pc = "L82"
    /\ metrics_file' = <<>>
    /\ writers' = [writers EXCEPT ![w].pc = "L83"]
    /\ UNCHANGED metrics

\* line 83: json.dump writes the text of the mirror, as it is now, to the
\* file object, whose buffer is larger than the text
writer_dumps(w) ==
    /\ writers[w].pc = "L83"
    /\ writers' = [writers EXCEPT ![w] = [pc |-> "close",
                                          buffer |-> json_dump(metrics)]]
    /\ UNCHANGED <<metrics, metrics_file>>

\* the end of the with block: the buffer is written at the position of this
\* file object, which is 0
writer_closes(w) ==
    /\ writers[w].pc = "close"
    /\ metrics_file' = written_over(metrics_file, writers[w].buffer)
    /\ writers' = [writers EXCEPT ![w].pc = "idle"]
    /\ UNCHANGED metrics

WriterCounts ==
    \E w \in Threads : writer_counts(w)

WriterOpens ==
    \E w \in Threads : writer_opens(w)

WriterDumps ==
    \E w \in Threads : writer_dumps(w)

WriterCloses ==
    \E w \in Threads : writer_closes(w)

NextWrites ==
    /\ \/ WriterCounts
       \/ WriterOpens
       \/ WriterDumps
       \/ WriterCloses
    /\ UNCHANGED <<memory_bank, memory_file>>
    /\ UNCHANGED <<state, history, calls, outcome, n_collected>>
    /\ UNCHANGED <<tests_box, sessions, lists, threads>>

SpecWrites ==
    InitWrites /\ [][NextWrites]_vars

-----------------------------------------------------------------------------
(* Two calls of chat_handler on the state dict of one session, lines 366   *)
(* to 369 statement by statement.  The two listeners bound to chat_handler *)
(* receive the same dict, and nothing in app.py makes one call wait for    *)
(* the other.                                                              *)

\* Messages explored per run of the two calls.
MaxRaceTurns == 7

\* a user turn while no other call runs
RaceTurn ==
    /\ \A t \in Threads : threads[t].pc = "idle"
    /\ TurnAllowed(MaxRaceTurns)
    /\ \E message \in SessionInputs(state) :
          chat_handler(message, "text", NoFault)

\* lines 307-314 of a call that finds stage collecting; the message arrives
\* while at least three slots are open, so that neither call dispatches
thread_enters(t, message) ==
    /\ threads[t].pc = "idle"
    /\ TurnAllowed(MaxRaceTurns)
    /\ state.stage = "collecting"
    /\ state.q_index + 2 < Len(state.questions)
    /\ \E c \in {save_metrics(bump(entered(state, NoFault), "total_messages"),
                              "L309")} :
          /\ metrics' = c.metrics
          /\ metrics_file' = c.metrics_file
    /\ threads' = [threads EXCEPT ![t] = [IdleThread EXCEPT
                                             !.pc = "L366",
                                             !.message = message]]
    /\ UNCHANGED <<state, history, calls, outcome, n_collected>>
    /\ UNCHANGED <<memory_bank, memory_file>>

\* line 366: idx = state["q_index"]
thread_reads_cursor(t) ==
    /\ threads[t].pc = "L366"
    /\ threads' = [threads EXCEPT ![t].pc = "L367",
                                  ![t].idx = state.q_index]
    /\ UNCHANGED <<state, history, calls, outcome, n_collected>>
    /\ UNCHANGED <<metrics, metrics_file, memory_bank, memory_file>>

\* line 367: key = state["questions"][idx][0]
thread_reads_key(t) ==
    /\ threads[t].pc = "L367"
    /\ threads' = [threads EXCEPT ![t].pc = "L368",
                                  ![t].key = state.questions[threads[t].idx + 1][1]]
    /\ UNCHANGED <<state, history, calls, outcome, n_collected>>
    /\ UNCHANGED <<metrics, metrics_file, memory_bank, memory_file>>

\* line 368: state["answers"][key] = message.strip()
thread_stores_answer(t) ==
    /\ threads[t].pc = "L368"
    /\ state' = Put(state, "answers",
                    Put(state.answers, threads[t].key, strip(threads[t].message)))
    /\ n_collected' = n_collected + 1
    /\ threads' = [threads EXCEPT ![t].pc = "L369"]
    /\ UNCHANGED <<history, calls, outcome>>
    /\ UNCHANGED <<metrics, metrics_file, memory_bank, memory_file>>

\* line 369: state["q_index"] += 1
thread_moves_cursor(t) ==
    /\ threads[t].pc = "L369"
    /\ state' = Put(state, "q_index", state.q_index + 1)
    /\ threads' = [threads EXCEPT ![t].pc = "L371"]
    /\ UNCHANGED <<history, calls, outcome, n_collected>>
    /\ UNCHANGED <<metrics, metrics_file, memory_bank, memory_file>>

\* lines 371-413 and the return
thread_returns(t) ==
    /\ threads[t].pc = "L371"
    /\ \E c \in {after_answer([entered(state, NoFault) EXCEPT
                                  !.history = <<user(threads[t].message)>>],
                              threads[t].idx, threads[t].key,
                              threads[t].message, "text")} :
          /\ state' = c.state
          /\ history' = c.history
          /\ metrics' = c.metrics
          /\ memory_bank' = c.memory_bank
          /\ metrics_file' = c.metrics_file
          /\ memory_file' = c.memory_file
          /\ calls' = c.calls
          /\ outcome' = c.outcome
    /\ threads' = [threads EXCEPT ![t] = IdleThread]
    /\ UNCHANGED n_collected

ThreadEnters ==
    \E t \in Threads :
        \E message \in SessionInputs(state) : thread_enters(t, message)

ThreadReadsCursor ==
    \E t \in Threads : thread_reads_cursor(t)

ThreadReadsKey ==
    \E t \in Threads : thread_reads_key(t)

ThreadStoresAnswer ==
    \E t \in Threads : thread_stores_answer(t)

ThreadMovesCursor ==
    \E t \in Threads : thread_moves_cursor(t)

ThreadReturns ==
    \E t \in Threads : thread_returns(t)

NextRace ==
    \/ RaceTurn
    \/ /\ \/ ThreadEnters
          \/ ThreadReadsCursor
          \/ ThreadReadsKey
          \/ ThreadStoresAnswer
          \/ ThreadMovesCursor
          \/ ThreadReturns
       /\ UNCHANGED <<tests_box, sessions, lists, writers>>

SpecRace ==
    Init /\ [][NextRace]_vars

-----------------------------------------------------------------------------
(* The same machine with a user who keeps sending messages: a flow that    *)
(* was selected is followed to its end, however many turns it takes.       *)

\* Messages explored per run outside of a flow (a flow that was selected
\* within them is not cut short).
MaxMenuTurns == 3

\* a user turn with a working store
LiveTurn ==
    /\ state.stage # "collecting" => TurnAllowed(MaxMenuTurns)
    /\ \E message \in Inputs, how \in Outcomes :
          chat_handler(message, how, NoFault)

NextLive ==
    \/ LiveTurn
    \/ ClearChat

\* the user always sends a next message; Clear Chat may or may not be clicked
SpecLive ==
    Init /\ [][NextLive]_vars /\ WF_vars(LiveTurn)

-----------------------------------------------------------------------------
(* Properties *)

\* the last call dispatched: it returned and called a finalizer
Dispatched ==
    outcome = "returned" /\ calls # <<>>

\* the step is a call of chat_handler that returned
Returned ==
    outcome' = "returned"

\* the message of the call that makes the step
Message ==
    history'[1].content

\* the key of the slot the next answer is recorded under
CurrentKey ==
    state.questions[state.q_index + 1][1]

\* the number of slots the follow-up rules add when `message` answers the
\* slot `key` of `flow`
InsertedCount(flow, key, message) ==
    IF flow = k_diet /\ key = "diet_pref"
    THEN IF strip(lower(message)) \in ALLERGY_PHRASES THEN 1 ELSE 0
    ELSE IF flow = k_shopping /\ key = "category"
    THEN (IF contains(k_cloth, lower(message)) THEN 3 ELSE 0)
         + (IF contains(k_grocery, lower(message)) THEN 1 ELSE 0)
    ELSE 0

FinalizerName(flow) ==
    IF flow = k_diet THEN "finalize_diet"
    ELSE IF flow = k_shopping THEN "finalize_shopping"
    ELSE "finalize_travel"

\* C1: when a flow is dispatched, the number of answers collected since the
\* flow was selected (which is the number of answers handed to the finalizer)
\* is the number of base slots plus the follow-up slots the answers
\* triggered: travel 7; diet 8, or 9 when diet_pref was an allergy phrase;
\* shopping 7, plus 3 when category contains "cloth", plus 1 when it contains
\* "grocery".
C1_AnswersCollected ==
    Dispatched =>
        LET fn == calls[1].fn
            a  == calls[1].args.answers
        IN  /\ n_collected = Cardinality(DOMAIN a)
            /\ fn = "finalize_travel" => n_collected = 7
            /\ fn = "finalize_diet" =>
                  n_collected = 8 + InsertedCount(k_diet, "diet_pref", a.diet_pref)
            /\ fn = "finalize_shopping" =>
                  n_collected = 7 + InsertedCount(k_shopping, "category", a.category)

\* a shopping flow was dispatched after both follow-up rules fired
C1_Witness ==
    /\ Dispatched
    /\ calls[1].fn = "finalize_shopping"
    /\ n_collected = 11
    /\ contains(k_cloth, lower(calls[1].args.answers.category))
    /\ contains(k_grocery, lower(calls[1].args.answers.category))

\* C2: the call that completes a flow returns the state {stage: choose_flow,
\* lang: the language held before}, with no flow, answers, questions or
\* q_index.
C2_ResetKeepsLanguage ==
    [][(Returned /\ state.stage = "collecting" /\ calls' # <<>>) =>
          /\ state' = [stage |-> "choose_flow", lang |-> state.lang]
          /\ DOMAIN state' = {"stage", "lang"}]_vars

\* a flow begun in Hindi has completed
C2_Witness ==
    /\ Dispatched
    /\ state.stage = "choose_flow"
    /\ state.lang = "Hindi"
    /\ calls[1].args.lang = "Hindi"

\* C3: a returned call dispatches exactly when it is a collecting call after
\* which (answer recorded, follow-ups added) q_index = len(questions); it
\* then calls the finalizer of the flow once, which calls gemini once, which
\* calls the generator once, and the state is reset once. The diet_pref call
\* that triggers the allergy follow-up does not dispatch.
C3_DispatchExactlyAtEnd ==
    [][Returned =>
          LET collectingNow == state.stage = "collecting"
              atEnd == /\ collectingNow
                       /\ state.q_index + 1 =
                             Len(state.questions)
                             + InsertedCount(state.flow, CurrentKey, Message)
          IN  /\ (calls' # <<>>) <=> atEnd
              /\ atEnd =>
                    /\ Len(calls') = 3
                    /\ calls'[1].fn = FinalizerName(state.flow)
                    /\ calls'[2].fn = "gemini"
                    /\ calls'[3].fn = "generate_content"
                    /\ state'.stage = "choose_flow"
                    /\ Cardinality({i \in DOMAIN history' :
                          history'[i] = assistant(WhatElseText(state.lang))}) = 1
              /\ (/\ collectingNow
                  /\ state.flow = k_diet
                  /\ CurrentKey = "diet_pref"
                  /\ strip(lower(Message)) \in ALLERGY_PHRASES)
                 => (calls' = <<>> /\ state'.stage = "collecting")]_vars

\* a diet flow was dispatched by the answer to the allergy follow-up
C3_Witness ==
    /\ Dispatched
    /\ Len(calls) = 3
    /\ calls[1].fn = "finalize_diet"
    /\ "allergy_list" \in DOMAIN calls[1].args.answers
    /\ state.stage = "choose_flow"

\* C4: when the generator call fails during a dispatch, the call still
\* returns, the reply holds the error text where the result would be, errors
\* grows by one, and the state is the reset state of a successful dispatch.
C4_GeneratorFailure ==
    [][(Len(calls') = 3 /\ calls'[3].args = "raise") =>
          /\ outcome' = "returned"
          /\ metrics'.errors = metrics.errors + 1
          /\ state' = [stage |-> "choose_flow", lang |-> state.lang]
          /\ history' = <<user(Message),
                          assistant(PreparingText),
                          assistant(GeminiErrorText),
                          assistant(WhatElseText(state.lang))>>]_vars

\* a dispatch whose generator call failed has returned
C4_Witness ==
    /\ Dispatched
    /\ Len(calls) = 3
    /\ calls[3].args = "raise"
    /\ metrics.errors = 1
    /\ history[3] = assistant(GeminiErrorText)

\* the language tag the language reply names, for the accepted spellings
TagOf(text) ==
    IF text = k_english THEN "English"
    ELSE IF text = k_hindi THEN "Hindi"
    ELSE IF text = k_marathi THEN "Marathi"
    ELSE "Telugu"

\* C5: in stage choose_language a message is accepted exactly when its
\* lowercased, trimmed text is english, hindi, marathi or telugu; an accepted
\* message sets stage choose_flow and the language tag and is answered by one
\* message with the flow menu; any other message leaves the state as it was
\* and is answered by one language re-prompt.
C5_LanguageSelection ==
    [][(Returned /\ state.stage = "choose_language") =>
          LET text == strip(lower(Message))
          IN  IF text \in {k_english, k_hindi, k_marathi, k_telugu}
              THEN /\ state' = [stage |-> "choose_flow", lang |-> TagOf(text)]
                   /\ history' = <<user(Message),
                                   assistant(LanguageSetText(TagOf(text)))>>
              ELSE /\ state' = state
                   /\ "lang" \notin DOMAIN state'
                   /\ history' = <<user(Message), assistant(LanguageReprompt)>>]_vars

\* " English " was accepted as English
C5_Witness ==
    /\ outcome = "returned"
    /\ state = [stage |-> "choose_flow", lang |-> "English"]
    /\ history = <<user(m_English_padded), assistant(LanguageSetText("English"))>>

\* the keys of the base slots of a flow, in catalog order
BaseKeys(flow) ==
    IF flow = k_diet
    THEN <<"age", "gender", "height_cm", "weight_kg", "goal", "activity",
           "diet_type", "diet_pref">>
    ELSE IF flow = k_shopping
    THEN <<"currency", "budget", "category", "purpose", "members",
           "preferences", "have">>
    ELSE <<"currency", "budget", "origin", "members", "country", "days", "pref">>

\* the keys of the slots of a queue
Keys(questions) ==
    [i \in 1..Len(questions) |-> questions[i][1]]

\* the first prompt of a flow
FirstPrompt(flow) ==
    IF flow = k_diet THEN "Your age?"
    ELSE IF flow = k_shopping THEN "Currency? (INR / USD / EUR / GBP / AED / CAD)"
    ELSE "Currency for budget (INR / USD / EUR / GBP / AED / CAD)?"

\* C6: in stage choose_flow a message is accepted exactly when its
\* lowercased, trimmed text is diet, shopping or travel; an accepted message
\* sets stage collecting and the flow, loads the base slots of the flow in
\* catalog order (8, 7, 7), q_index 0 and no answers, adds one to
\* sessions_created and is answered by the prompt of the first slot; any
\* other message leaves the state and sessions_created as they were and is
\* answered by one flow re-prompt.
C6_FlowSelection ==
    [][(Returned /\ state.stage = "choose_flow") =>
          LET text == strip(lower(Message))
          IN  IF text \in {k_diet, k_shopping, k_travel}
              THEN /\ DOMAIN state' =
                         {"stage", "lang", "flow", "questions", "answers", "q_index"}
                   /\ state'.stage = "collecting"
                   /\ state'.lang = state.lang
                   /\ state'.flow = text
                   /\ Keys(state'.questions) = BaseKeys(text)
                   /\ Len(state'.questions) = (IF text = k_diet THEN 8 ELSE 7)
                   /\ state'.q_index = 0
                   /\ DOMAIN state'.answers = {}
                   /\ metrics'.sessions_created = metrics.sessions_created + 1
                   /\ history' = <<user(Message), assistant(<<FirstPrompt(text)>>)>>
              ELSE /\ state' = state
                   /\ metrics'.sessions_created = metrics.sessions_created
                   /\ history' = <<user(Message), assistant(FlowReprompt)>>]_vars

\* "SHOPPING " was accepted and the currency question asked
C6_Witness ==
    /\ outcome = "returned"
    /\ state.stage = "collecting"
    /\ state.flow = k_shopping
    /\ state.q_index = 0
    /\ Len(state.questions) = 7
    /\ metrics.sessions_created = 1
    /\ history = <<user(m_SHOPPING_padded),
                   assistant(<<"Currency? (INR / USD / EUR / GBP / AED / CAD)">>)>>

\* C7: in every state with stage collecting the cursor designates an
\* existing slot, 0 <= q_index < len(questions), so no call indexes the
\* queue out of range (no call raises).
C7_CursorInRange ==
    /\ outcome # "raised"
    /\ state.stage = "collecting" =>
          /\ 0 <= state.q_index
          /\ state.q_index < Len(state.questions)

\* the allergy follow-up was queued behind the last base slot of diet
C7_Witness ==
    /\ state.stage = "collecting"
    /\ state.flow = k_diet
    /\ state.q_index = 8
    /\ Len(state.questions) = 9
    /\ state.questions[9][1] = "allergy_list"

\* C8: every call returns, and the returned messages are the user's message
\* followed by at least one assistant message.
C8_AlwaysReplies ==
    /\ outcome # "raised"
    /\ outcome = "returned" =>
          /\ Len(history) >= 2
          /\ history[1].role = "user"
          /\ \A i \in 2..Len(history) : history[i].role = "assistant"

\* a call whose generator call failed returned its four messages
C8_Witness ==
    /\ outcome = "returned"
    /\ Len(calls) = 3
    /\ calls[3].args = "raise"
    /\ Len(history) = 4
    /\ history[1].role = "user"

\* C9: a persistence failure does not crash the conversation: with an
\* unreadable store at start, or a save_json call that fails, every call
\* still returns a reply and never leaves stage collecting with
\* q_index = len(questions).
C9_PersistenceFailureTolerated ==
    /\ outcome # "raised"
    /\ outcome = "returned" => Len(history) >= 2
    /\ state.stage = "collecting" => state.q_index < Len(state.questions)

\* the keys of the clothing follow-ups and of the grocery follow-up
ClothingKeys ==
    <<"for_whom", "occasion", "sizes">>

GroceryKeys ==
    <<"frequency">>

\* the text that asks for the slot `slot`
Asks(slot) ==
    IF slot[1] = "allergy_list" THEN assistant(AllergyFollowUp)
    ELSE assistant(<<slot[2]>>)

\* the step answers the slot at idx, and after it the slots with keys
\* `inserted` follow that slot, the queue is otherwise as before, the cursor
\* is on the first of them and the reply asks for it
InsertedAfterCursor(inserted) ==
    LET idx == state.q_index
        old == state.questions
        new == state'.questions
        n   == Len(inserted)
    IN  /\ state'.stage = "collecting"
        /\ state'.q_index = idx + 1
        /\ Len(new) = Len(old) + n
        /\ SubSeq(new, 1, idx + 1) = SubSeq(old, 1, idx + 1)
        /\ Keys(SubSeq(new, idx + 2, idx + 1 + n)) = inserted
        /\ SubSeq(new, idx + 2 + n, Len(new)) = SubSeq(old, idx + 2, Len(old))
        /\ Len(history') = 2
        /\ history'[2] = Asks(new[idx + 2])
        /\ new[idx + 2][1] = inserted[1]

\* the follow-up rules fire in the step: the flow and slot have a rule and
\* the message matches it
AllergyRuleFires ==
    /\ state.flow = k_diet
    /\ CurrentKey = "diet_pref"
    /\ strip(lower(Message)) \in ALLERGY_PHRASES

ClothingRuleFires ==
    /\ state.flow = k_shopping
    /\ CurrentKey = "category"
    /\ contains(k_cloth, lower(Message))

GroceryRuleFires ==
    /\ state.flow = k_shopping
    /\ CurrentKey = "category"
    /\ contains(k_grocery, lower(Message))

\* the orders in which the slots of the rules that fire can follow the
\* answered slot: the slots of one rule stay together, in their declared order
InsertedOrders ==
    IF AllergyRuleFires THEN {<<"allergy_list">>}
    ELSE LET clothing == IF ClothingRuleFires THEN ClothingKeys ELSE <<>>
             grocery  == IF GroceryRuleFires THEN GroceryKeys ELSE <<>>
         IN  {clothing \o grocery, grocery \o clothing}

\* C10: when the answer to the slot at idx triggers follow-up rules, the
\* inserted slots stand right after that slot, the slots of each rule in
\* their declared order (for_whom, occasion, sizes; frequency;
\* allergy_list), the slots up to idx are unchanged, the slots not yet asked
\* keep their order behind the inserted ones, and the next question asked is
\* the first of the inserted slots; also for a category that contains both
\* "cloth" and "grocery".
C10_InsertedAfterCursor ==
    [][(Returned /\ state.stage = "collecting" /\ InsertedOrders # {<<>>}) =>
          \E inserted \in InsertedOrders : InsertedAfterCursor(inserted)]_vars

\* "Clothes and grocery" was given as the category: frequency is asked
\* first and the clothing slots follow it
C10_Witness ==
    /\ outcome = "returned"
    /\ state.stage = "collecting"
    /\ state.flow = k_shopping
    /\ state.q_index = 3
    /\ state.answers["category"] = m_Clothes_and_grocery
    /\ Keys(SubSeq(state.questions, 3, 8)) =
          <<"category", "frequency", "for_whom", "occasion", "sizes", "purpose">>
    /\ history[2] = assistant(<<"Grocery frequency (Weekly / Monthly)?">>)

\* C11: in every reachable state the keys of the slots of the queue are
\* pairwise distinct (so each follow-up rule has inserted its slots at most
\* once in the flow instance), and no slot key is asked or answered twice:
\* the answers recorded in the flow instance are under as many keys as there
\* were collecting turns, and the slot under the cursor has no answer yet.
C11_SlotKeysDistinct ==
    state.stage = "collecting" =>
        /\ \A i, j \in 1..Len(state.questions) :
              state.questions[i][1] = state.questions[j][1] => i = j
        /\ Cardinality(DOMAIN state.answers) = n_collected
        /\ state.q_index < Len(state.questions) =>
              CurrentKey \notin DOMAIN state.answers

\* a shopping queue that got the four follow-up slots, all of them answered
C11_Witness ==
    /\ state.stage = "collecting"
    /\ state.flow = k_shopping
    /\ Len(state.questions) = 11
    /\ n_collected = 9
    /\ {"frequency", "for_whom", "occasion", "sizes"} \subseteq DOMAIN state.answers

\* C12: within a flow instance q_index never decreases: every collecting turn
\* increases it by exactly one, whether or not the turn inserts follow-up
\* slots, and a queue with q_index = 0 comes only from the choose_flow turn
\* that selects a flow.
C12_CursorMonotone ==
    [][ /\ (state.stage = "collecting" /\ state'.stage = "collecting") =>
              /\ state'.flow = state.flow
              /\ state'.q_index = state.q_index + 1
        /\ (state.stage # "collecting" /\ state'.stage = "collecting") =>
              /\ state.stage = "choose_flow"
              /\ Returned
              /\ state'.q_index = 0
        /\ (state'.stage = "collecting" /\ state'.q_index = 0) =>
              state.stage = "choose_flow"
      ]_vars

\* the turn that answered category inserted four slots and moved the cursor
\* from 2 to 3
C12_Witness ==
    /\ state.stage = "collecting"
    /\ state.flow = k_shopping
    /\ state.q_index = 3
    /\ Len(state.questions) = 11
    /\ n_collected = 3

\* the flows completed so far, over the three flows
CompletedFlows(m) ==
    m.flows_completed.diet + m.flows_completed.shopping + m.flows_completed.travel

\* the step is a call of chat_handler that dispatched
Dispatches ==
    Returned /\ calls' # <<>>

\* the generator call of the step failed
GeneratorFails ==
    Len(calls') = 3 /\ calls'[3].args = "raise"

\* C17: with a working store and turns one after the other, starting from
\* counters at zero: gemini_calls grows by one per dispatch and equals the
\* flows completed; flows_completed[f] grows by one per dispatch of f, also
\* when the generator failed; errors grows by one per failed generator call
\* and by nothing else, and is at most gemini_calls; completed flows <=
\* sessions_created <= total_messages; total_messages grows by one per user
\* message in every stage.
C17_CounterConsistency ==
    /\ [](/\ metrics.gemini_calls = CompletedFlows(metrics)
          /\ metrics.errors <= metrics.gemini_calls
          /\ CompletedFlows(metrics) <= metrics.sessions_created
          /\ metrics.sessions_created <= metrics.total_messages)
    /\ [][ /\ Returned => metrics'.total_messages = metrics.total_messages + 1
           /\ ~Returned => metrics' = metrics
           /\ Dispatches =>
                 /\ metrics'.gemini_calls = metrics.gemini_calls + 1
                 /\ metrics'.flows_completed =
                       [metrics.flows_completed EXCEPT ![FlowKey(state.flow)] = @ + 1]
                 /\ metrics'.errors =
                       metrics.errors + (IF GeneratorFails THEN 1 ELSE 0)
           /\ (Returned /\ ~Dispatches) =>
                 /\ metrics'.gemini_calls = metrics.gemini_calls
                 /\ metrics'.flows_completed = metrics.flows_completed
                 /\ metrics'.errors = metrics.errors
           /\ metrics'.sessions_created = metrics.sessions_created +
                 (IF state.stage = "choose_flow" /\ state'.stage = "collecting"
                  THEN 1 ELSE 0)
         ]_vars

\* a flow was completed though its generator call failed, and a second flow
\* was selected but not completed
C17_Witness ==
    /\ metrics.gemini_calls = 1
    /\ metrics.errors = 1
    /\ metrics.flows_completed.travel = 1
    /\ metrics.sessions_created = 2
    /\ state.stage = "collecting"

\* the keys of the slots of a queue before the cursor
AnsweredKeys(st) ==
    {st.questions[i][1] : i \in 1..st.q_index}

\* C18: in every reachable collecting state the keys of answers are exactly
\* the keys of the slots before the cursor, as many as q_index; a collecting
\* turn only adds keys; and the answers a dispatch hands to the finalizer
\* have a value under the key of every slot of the queue, inserted follow-ups
\* included.
C18_AnswersTrackCursor ==
    /\ [](state.stage = "collecting" =>
            /\ DOMAIN state.answers = AnsweredKeys(state)
            /\ Cardinality(DOMAIN state.answers) = state.q_index)
    /\ [][ /\ (state.stage = "collecting" /\ state'.stage = "collecting") =>
                 /\ DOMAIN state.answers \subseteq DOMAIN state'.answers
                 /\ \A k \in DOMAIN state.answers :
                       state'.answers[k] = state.answers[k]
           /\ Dispatches =>
                 /\ DOMAIN calls'[1].args.answers =
                       {state.questions[i][1] : i \in 1..Len(state.questions)}
                 /\ DOMAIN state.answers \subseteq DOMAIN calls'[1].args.answers
         ]_vars

\* a diet dispatch whose answers include the inserted allergy_list
C18_Witness ==
    /\ Dispatched
    /\ calls[1].fn = "finalize_diet"
    /\ Cardinality(DOMAIN calls[1].args.answers) = 9
    /\ calls[1].args.answers["allergy_list"] = strip(m_plain)

\* the keys a state has only while a flow is collected
FlowFields ==
    {"flow", "questions", "q_index", "answers"}

\* C19: from {stage: choose_language} every reachable state has stage in
\* {choose_language, choose_flow, collecting}, so the fallback branch is never
\* taken; lang is set exactly when stage is not choose_language; flow,
\* questions, q_index and answers are present exactly when stage is
\* collecting, and flow is then one of diet, shopping, travel.
C19_StateWellFormed ==
    /\ state.stage \in {"choose_language", "choose_flow", "collecting"}
    /\ \A i \in 1..Len(history) : history[i].content # FallbackText
    /\ "lang" \in DOMAIN state <=> state.stage # "choose_language"
    /\ "lang" \in DOMAIN state =>
          \E text \in DOMAIN LANG_CHOICES : state.lang = LANG_CHOICES[text]
    /\ \A field \in FlowFields :
          field \in DOMAIN state <=> state.stage = "collecting"
    /\ DOMAIN state \subseteq {"stage", "lang"} \cup FlowFields
    /\ state.stage = "collecting" => state.flow \in FLOW_NAMES

\* a completed shopping flow left the two-field state in Marathi
C19_Witness ==
    /\ Dispatched
    /\ calls[1].fn = "finalize_shopping"
    /\ state = [stage |-> "choose_flow", lang |-> "Marathi"]

\* C20: once a language is accepted no call of chat_handler changes lang or
\* brings stage back to choose_language, whatever the message; the only step
\* back to choose_language is Clear Chat, which restores the initial state.
C20_LanguageSetOnce ==
    [][ /\ ("lang" \in DOMAIN state /\ outcome' # "none") =>
              /\ "lang" \in DOMAIN state'
              /\ state'.lang = state.lang
              /\ state'.stage # "choose_language"
        /\ (state.stage # "choose_language" /\ state'.stage = "choose_language") =>
              /\ outcome' = "none"
              /\ state' = [stage |-> "choose_language"]
              /\ history' = <<>>
      ]_vars

\* with Telugu set, a message naming another language was taken as an
\* unrecognized flow and left the language as it was
C20_Witness ==
    /\ state = [stage |-> "choose_flow", lang |-> "Telugu"]
    /\ history = <<user(m_English_padded), assistant(FlowReprompt)>>

\* C16: with no other writer in between, load_json(path, default) after
\* save_json(path, data) returns a mapping equal to data, for the memory and
\* the metrics store: each file parses, what it parses to is the mirror that
\* was saved to it last, and both persistence self tests pass.
C16_StoreRoundTrip ==
    /\ json_load(metrics_file).ok
    /\ load_json(metrics_file, EmptyMap) = metrics
    /\ json_load(memory_file).ok
    /\ load_json(memory_file, EmptyMap) = memory_bank
    /\ tests_box # <<>> => tests_box[1][2] /\ tests_box[2][2]

\* the self tests ran after a shopping flow had stored its nested budget
\* entry and ten messages had been counted
C16_Witness ==
    /\ tests_box = << <<"Memory persistence", TRUE>>,
                      <<"Metrics persistence", TRUE>> >>
    /\ "last_shopping_budget" \in DOMAIN load_json(memory_file, EmptyMap)
    /\ "__test" \in DOMAIN load_json(memory_file, EmptyMap)
    /\ load_json(metrics_file, EmptyMap).total_messages = 10

\* the step is a turn or a Clear Chat of session s
ActsIn(s) ==
    SessionTurn(s) \/ SessionClearChat(s)

\* C13: conversation state is isolated between sessions and from the flow
\* template: a step of one session leaves the stage, lang, flow, queue,
\* cursor and answers of the other session as they were, and the queue a
\* session gets when it selects a flow is the unmodified base queue of the
\* flow, with the cursor at 0 and no answers, whatever was inserted into
\* queues of the flow before.
C13_SessionsIsolated ==
    [][\A s \in Sessions :
          ActsIn(s) =>
              /\ \A t \in Sessions \ {s} : session_state(t)' = session_state(t)
              /\ (sessions[s].stage = "choose_flow" /\
                  sessions'[s].stage = "collecting") =>
                    /\ session_state(s)'.questions =
                          base_questions_for_flow(sessions'[s].flow)
                    /\ session_state(s)'.q_index = 0
                    /\ session_state(s)'.answers = EmptyMap
      ]_vars

\* session 1 has four follow-up slots in its shopping queue, and session 2
\* selected shopping after that and holds the seven base slots
C13_Witness ==
    /\ sessions[1].stage = "collecting"
    /\ sessions[1].flow = k_shopping
    /\ Len(session_state(1).questions) = 11
    /\ sessions[2].stage = "collecting"
    /\ sessions[2].flow = k_shopping
    /\ sessions[2].q_index = 0
    /\ session_state(2).questions = base_questions_for_flow(k_shopping)

\* C14: concurrent writes to the same store by turns of different sessions
\* never leave it corrupted: whenever no save_json call is running, the file
\* is a complete mapping, and once a call has written, it is the text of one
\* of the writes, never truncated or mixed.
C14_WritesNeverCorrupt ==
    (\A w \in Threads : writers[w].pc = "idle") =>
        /\ json_load(metrics_file).ok
        /\ (\E w \in Threads : writers[w].buffer # <<>>) =>
              \E w \in Threads : metrics_file = writers[w].buffer

\* C15: turns of the same session are serialized: when two messages of a
\* session are delivered at the same time the two calls do not interleave,
\* so once both have returned each message is the answer of a slot of its
\* own, q_index has advanced by one per message, and the answers are those
\* of the slots before the cursor.
C15_TurnsSerialized ==
    ((\A t \in Threads : threads[t].pc = "idle") /\ state.stage = "collecting") =>
        /\ Cardinality(DOMAIN state.answers) = n_collected
        /\ state.q_index = n_collected
        /\ DOMAIN state.answers = AnsweredKeys(state)
        /\ state.q_index < Len(state.questions)

\* the most slots the follow-up rules add to a queue of a flow
MostInserted(flow) ==
    IF flow = k_diet THEN 1
    ELSE IF flow = k_shopping THEN 4
    ELSE 0

\* the most answers a flow instance takes
MostAnswers(flow) ==
    IF flow = k_diet THEN 9
    ELSE IF flow = k_shopping THEN 11
    ELSE 7

\* C21: every flow instance terminates.  The queue grows by at most 1 slot
\* in diet, 4 in shopping and 0 in travel, so it never holds more than 9, 11
\* and 7 slots; a dispatch comes after at most that many answers and returns
\* to choose_flow; and when the user keeps sending messages, a session in
\* stage collecting eventually dispatches (unless Clear Chat ends the flow
\* instance first).
C21_FlowsTerminate ==
    /\ [](state.stage = "collecting" =>
            /\ Len(state.questions) <=
                  Len(base_questions_for_flow(state.flow)) + MostInserted(state.flow)
            /\ Len(state.questions) <= MostAnswers(state.flow)
            /\ n_collected < Len(state.questions))
    /\ [][Dispatches =>
             /\ state'.stage = "choose_flow"
             /\ n_collected' = n_collected + 1
             /\ n_collected' <= MostAnswers(state.flow)]_vars
    /\ (state.stage = "collecting") ~>
          ((Dispatched /\ state.stage = "choose_flow") \/ outcome = "none")

\* a shopping flow that got all four follow-up slots was dispatched after
\* eleven answers
C21_Witness ==
    /\ Dispatched
    /\ state.stage = "choose_flow"
    /\ calls[1].fn = "finalize_shopping"
    /\ n_collected = 11
    /\ Cardinality(DOMAIN calls[1].args.answers) = 11

====
